---- MODULE Spec2Model ----
(***************************************************************************)
(* The checkpoint lock script of axon-contracts                            *)
(* (contracts/checkpoint/src/entry.rs): main() decides accept / reject for *)
(* one transaction from the cells of its two sides, the first group-input  *)
(* witness and the answer of the secp256k1 signature oracle.               *)
(*                                                                         *)
(* Unsigned 64- and 128-bit integers keep their width: a number is a       *)
(* little-endian sequence of 16-bit limbs (4 limbs = u64, 8 limbs = u128), *)
(* because the values of interest (2^32, 2^64, 2^128 - 1) do not fit the   *)
(* model checker's integers.                                               *)
(***************************************************************************)
EXTENDS Integers, Sequences, FiniteSets, TLC

VARIABLES
    overflow_checks,  \* build profile: TRUE = arithmetic overflow panics, FALSE = it wraps
    args,             \* CheckpointLockArgs of the script: admin_identity, type_id_hash
    genesis,          \* the record cell the chain started from
    live,             \* the record cell currently on the ledger
    height,           \* number of accepted transitions since genesis
    tx,               \* the transaction main() was last run on
    result,           \* what main() returned for tx: "Ok", an Error name or "Panic"
    steps             \* the checks main() evaluated for tx, in order

vars == <<overflow_checks, args, genesis, live, height, tx, result, steps>>

----------------------------------------------------------------------------
(* Fixed-width unsigned arithmetic on limb sequences.                       *)

Base == 65536

U64Limbs == 4

U128Limbs == 8

Zeros(n) == [i \in 1..n |-> 0]

\* A small number (below Base) widened to n limbs.
Small(v, n) == [i \in 1..n |-> IF i = 1 THEN v ELSE 0]

\* The largest value of n limbs: 2^(16 n) - 1.
MaxOf(n) == [i \in 1..n |-> Base - 1]

\* a widened with zero limbs to n limbs.
Widen(a, n) == [i \in 1..n |-> IF i <= Len(a) THEN a[i] ELSE 0]

RECURSIVE AddLimbs(_, _, _)
\* a + b + c on equally long limb sequences: the wrapped sum and the carry out.
AddLimbs(a, b, c) ==
    IF a = <<>> THEN [limbs |-> <<>>, carry |-> c]
    ELSE LET s == Head(a) + Head(b) + c
             rest == AddLimbs(Tail(a), Tail(b), s \div Base)
         IN [limbs |-> <<s % Base>> \o rest.limbs, carry |-> rest.carry]

RECURSIVE SubLimbs(_, _, _)
\* a - b - c on equally long limb sequences: the wrapped difference and the borrow out.
SubLimbs(a, b, c) ==
    IF a = <<>> THEN [limbs |-> <<>>, carry |-> c]
    ELSE LET d == Head(a) - Head(b) - c
             rest == SubLimbs(Tail(a), Tail(b), IF d < 0 THEN 1 ELSE 0)
         IN [limbs |-> <<(d + Base) % Base>> \o rest.limbs, carry |-> rest.carry]

RECURSIVE LessLimbs(_, _)
\* a < b on equally long limb sequences.
LessLimbs(a, b) ==
    IF a = <<>> THEN FALSE
    ELSE LET n == Len(a)
         IN IF a[n] # b[n] THEN a[n] < b[n]
            ELSE LessLimbs(SubSeq(a, 1, n - 1), SubSeq(b, 1, n - 1))

RECURSIVE Pow2Int(_)
Pow2Int(k) == IF k = 0 THEN 1 ELSE 2 * Pow2Int(k - 1)

\* Bit i (from 0) of a.
BitOf(a, i) == (a[(i \div 16) + 1] \div Pow2Int(i % 16)) % 2

RECURSIVE Shl1(_, _)
\* 2 a + bit, on the limbs of a (the bit shifted out of the top is dropped).
Shl1(a, bit) ==
    IF a = <<>> THEN <<>>
    ELSE LET v == 2 * Head(a) + bit
         IN <<v % Base>> \o Shl1(Tail(a), v \div Base)

RECURSIVE BitLenInt(_)
BitLenInt(v) == IF v = 0 THEN 0 ELSE 1 + BitLenInt(v \div 2)

RECURSIVE BitLen(_)
\* Number of significant bits of a.
BitLen(a) ==
    IF a = <<>> THEN 0
    ELSE LET n == Len(a)
         IN IF a[n] # 0 THEN 16 * (n - 1) + BitLenInt(a[n])
            ELSE BitLen(SubSeq(a, 1, n - 1))

RECURSIVE DivLoop(_, _, _, _, _)
\* Binary long division: bits i-1 .. 0 of a still to bring down, q the quotient
\* so far, r the remainder so far (one limb wider than b, so 2 r + 1 fits).
DivLoop(a, b, i, q, r) ==
    IF i = 0 THEN q
    ELSE LET r2 == Shl1(r, BitOf(a, i - 1))
             bw == Widen(b, Len(r))
             ge == ~LessLimbs(r2, bw)
         IN DivLoop(a, b, i - 1, Shl1(q, IF ge THEN 1 ELSE 0),
                    IF ge THEN SubLimbs(r2, bw, 0).limbs ELSE r2)

\* floor(a / b) for b # 0, on equally long limb sequences.
DivLimbs(a, b) == DivLoop(a, b, BitLen(a), Zeros(Len(a)), Zeros(Len(a) + 1))

----------------------------------------------------------------------------
(* Byte strings, options and the data the host hands to the script.         *)

\* Option<T>: None is the empty sequence, Some(x) the one-element sequence.
None == <<>>

Some(x) == <<x>>

\* u128 / u64 / u32 to_le_bytes(): two bytes per limb, low byte first.
to_le_bytes(limbs) ==
    [i \in 1..(2 * Len(limbs)) |->
        IF i % 2 = 1 THEN limbs[(i + 1) \div 2] % 256
        ELSE limbs[i \div 2] \div 256]

\* u128 / u64 from_le_bytes(): byte pairs back to limbs.
from_le_bytes(bytes) ==
    [k \in 1..(Len(bytes) \div 2) |-> bytes[2 * k - 1] + 256 * bytes[2 * k]]

\* fn bytes_to_u128(bytes: &Vec<u8>) -> u128
bytes_to_u128(bytes) == from_le_bytes(SubSeq(bytes, 1, 16))

\* fn bytes_to_u64(bytes: &Vec<u8>) -> u64
bytes_to_u64(bytes) == from_le_bytes(SubSeq(bytes, 1, 8))

\* A 32-byte hash told apart by its first byte; Hash32(0) is [0u8; 32].
Hash32(n) == [i \in 1..32 |-> IF i = 1 THEN n ELSE 0]

TypeIdHash == Hash32(1)

SudtTypeHash == Hash32(2)

StakeTypeHash == Hash32(4)

WithdrawalCodeHash == Hash32(6)

OtherTypeHash == Hash32(8)

\* helper::axon_checkpoint_data: the record the tests build (version is the
\* builder's default 0).
axon_checkpoint_data(sudt_type_hash, stake_type_hash, withdrawal_lock_code_hash) ==
    [kind |-> "checkpoint",
     version |-> <<0>>,
     state |-> <<1>>,
     period |-> to_le_bytes(Small(1, U64Limbs)),
     era |-> to_le_bytes(Small(1, U64Limbs)),
     block_hash |-> Hash32(0),
     period_interval |-> to_le_bytes(Small(100, 2)),
     era_period |-> to_le_bytes(Small(1, 2)),
     unlock_period |-> to_le_bytes(Small(1, 2)),
     base_reward |-> to_le_bytes(Small(0, U128Limbs)),
     half_period |-> to_le_bytes(Small(1, U64Limbs)),
     sudt_type_hash |-> sudt_type_hash,
     stake_type_hash |-> stake_type_hash,
     withdrawal_lock_code_hash |-> withdrawal_lock_code_hash]

ConfigFields ==
    {"version", "period_interval", "era_period", "base_reward", "half_period",
     "sudt_type_hash", "stake_type_hash", "withdrawal_lock_code_hash"}

MutableFields == {"state", "period", "era", "unlock_period", "block_hash"}

\* Raw cell data (a token cell, or any cell that is not a record).
Raw(bytes) == [kind |-> "raw", bytes |-> bytes]

\* A cell as the syscalls show it: load_cell_type_hash, load_cell_capacity,
\* load_cell_data.
Cell(type_hash, capacity, data) ==
    [type_hash |-> type_hash, capacity |-> capacity, data |-> data]

----------------------------------------------------------------------------
(* contracts/checkpoint/src/entry.rs                                        *)

\* A cell without a type script made to compare as 32 bytes of 0xff.
unwrap_or_ones(cell_type_hash) ==
    IF cell_type_hash = None THEN [i \in 1..32 |-> 255] ELSE cell_type_hash[1]

\* cell_type_hash.unwrap_or([0u8; 32]): a cell without a type script compares
\* as 32 zero bytes.
unwrap_or_zero(cell_type_hash) ==
    IF cell_type_hash = None THEN Hash32(0) ELSE cell_type_hash[1]

RECURSIVE InfoScan(_, _, _, _, _)
\* The closure of get_info_by_type_hash over cells i .. Len(cells), with the
\* captured capacity and celldata; collect::<Result<..>>() stops at the first Err.
InfoScan(type_hash, cells, i, capacity, celldata) ==
    IF i > Len(cells) THEN [err |-> None, capacity |-> capacity, celldata |-> celldata]
    ELSE IF unwrap_or_zero(cells[i].type_hash) # type_hash
         THEN InfoScan(type_hash, cells, i + 1, capacity, celldata)
    ELSE IF celldata # None
         THEN [err |-> Some("CheckpointCellError"), capacity |-> capacity,
               celldata |-> celldata]
    ELSE InfoScan(type_hash, cells, i + 1, cells[i].capacity, Some(cells[i].data))

\* get_info_by_type_hash without the duplicate check: the first match wins.
get_info_first_match(type_hash, cells) ==
    LET found == { i \in 1..Len(cells) : unwrap_or_zero(cells[i].type_hash) = type_hash }
    IN IF found = {}
       THEN [err |-> Some("CheckpointCellError"), capacity |-> 0, celldata |-> None]
       ELSE LET first == CHOOSE i \in found : \A j \in found : i <= j
            IN [err |-> None, capacity |-> cells[first].capacity,
                celldata |-> Some(cells[first].data)]

\* fn get_info_by_type_hash(type_hash, source) -> Result<(u64, CheckpointLockCellData), Error>
get_info_by_type_hash(type_hash, cells) ==
    LET scan == InfoScan(type_hash, cells, 1, 0, None)
    IN IF scan.err # None THEN scan
       ELSE IF scan.celldata = None
            THEN [err |-> Some("CheckpointCellError"), capacity |-> scan.capacity,
                  celldata |-> None]
       ELSE scan

\* sudt += amount: with overflow checks the addition panics on overflow,
\* without them it wraps modulo 2^128.
AddU128(sudt, amount, checks) ==
    LET sum == AddLimbs(sudt, amount, 0)
    IN IF sum.carry = 1 /\ checks
       THEN [err |-> Some("Panic"), value |-> sudt]
       ELSE [err |-> None, value |-> sum.limbs]

RECURSIVE SudtScan(_, _, _, _, _)
\* The closure of get_sudt_by_type_hash over cells i .. Len(cells), with the
\* captured sum.
SudtScan(type_hash, cells, i, sudt, checks) ==
    IF i > Len(cells) THEN [err |-> None, value |-> sudt]
    ELSE IF unwrap_or_zero(cells[i].type_hash) = type_hash
         THEN LET value == cells[i].data.bytes
              IN IF Len(value) < 16
                 THEN [err |-> Some("BadSudtDataFormat"), value |-> sudt]
                 ELSE LET sum == AddU128(sudt, bytes_to_u128(SubSeq(value, 1, 16)), checks)
                      IN IF sum.err # None THEN sum
                         ELSE SudtScan(type_hash, cells, i + 1, sum.value, checks)
    ELSE SudtScan(type_hash, cells, i + 1, sudt, checks)

\* fn get_sudt_by_type_hash(type_hash, source) -> Result<u128, Error>
get_sudt_by_type_hash(type_hash, cells, checks) ==
    SudtScan(type_hash, cells, 1, Zeros(U128Limbs), checks)

\* The capacity comparison left out.
CapacityNeverDiffers(input_checkpoint_capacity, output_checkpoint_capacity) == FALSE

\* if input_checkpoint_capacity != output_checkpoint_capacity
CapacityDiffers(input_checkpoint_capacity, output_checkpoint_capacity) ==
    input_checkpoint_capacity # output_checkpoint_capacity

\* The configuration comparison without half_period.
ConfigDiffersButHalfPeriod(input_checkpoint_data, output_checkpoint_data) ==
    \/ input_checkpoint_data.version # output_checkpoint_data.version
    \/ input_checkpoint_data.period_interval # output_checkpoint_data.period_interval
    \/ input_checkpoint_data.era_period # output_checkpoint_data.era_period
    \/ input_checkpoint_data.base_reward # output_checkpoint_data.base_reward
    \/ input_checkpoint_data.sudt_type_hash # output_checkpoint_data.sudt_type_hash
    \/ input_checkpoint_data.stake_type_hash # output_checkpoint_data.stake_type_hash
    \/ input_checkpoint_data.withdrawal_lock_code_hash
          # output_checkpoint_data.withdrawal_lock_code_hash

\* The eight configuration fields main() compares.
ConfigDiffers(input_checkpoint_data, output_checkpoint_data) ==
    \/ input_checkpoint_data.version # output_checkpoint_data.version
    \/ input_checkpoint_data.period_interval # output_checkpoint_data.period_interval
    \/ input_checkpoint_data.era_period # output_checkpoint_data.era_period
    \/ input_checkpoint_data.base_reward # output_checkpoint_data.base_reward
    \/ input_checkpoint_data.half_period # output_checkpoint_data.half_period
    \/ input_checkpoint_data.sudt_type_hash # output_checkpoint_data.sudt_type_hash
    \/ input_checkpoint_data.stake_type_hash # output_checkpoint_data.stake_type_hash
    \/ input_checkpoint_data.withdrawal_lock_code_hash
          # output_checkpoint_data.withdrawal_lock_code_hash

\* The checkpoint mode comparison without unlock_period.
FixedFieldsDifferStateOnly(input_checkpoint_data, output_checkpoint_data) ==
    input_checkpoint_data.state # output_checkpoint_data.state

\* The checkpoint mode comparison without state.
FixedFieldsDifferUnlockOnly(input_checkpoint_data, output_checkpoint_data) ==
    input_checkpoint_data.unlock_period # output_checkpoint_data.unlock_period

\* The checkpoint mode comparison that also rejects a period that did not change.
FixedFieldsDifferOrSamePeriod(input_checkpoint_data, output_checkpoint_data) ==
    \/ input_checkpoint_data.state # output_checkpoint_data.state
    \/ input_checkpoint_data.unlock_period # output_checkpoint_data.unlock_period
    \/ input_checkpoint_data.period = output_checkpoint_data.period

\* The fields the checkpoint mode requires unchanged.
FixedFieldsDiffer(input_checkpoint_data, output_checkpoint_data) ==
    \/ input_checkpoint_data.state # output_checkpoint_data.state
    \/ input_checkpoint_data.unlock_period # output_checkpoint_data.unlock_period

\* The mode read from the last byte of the segment instead of the first.
is_admin_mode_last_byte(input_type) ==
    IF input_type[1] = <<>> THEN None
    ELSE Some(input_type[1][Len(input_type[1])] = 0)

\* match input_type.unwrap().raw_data().to_vec().first(): None when the
\* segment holds no byte, else whether the first byte is 0.
is_admin_mode(input_type) ==
    IF input_type[1] = <<>> THEN None ELSE Some(input_type[1][1] = 0)

\* The division guard put on period instead of half_period.
HalvingGuardOnPeriod(period, half_period) == period = Zeros(U64Limbs)

\* if half_period == 0
HalvingGuard(period, half_period) == half_period = Zeros(U64Limbs)

\* input_at_amount < output_at_amount
AdminAmountMismatch(input_at_amount, output_at_amount) ==
    LessLimbs(input_at_amount, output_at_amount)

\* (period / half_period) as u32: the low 32 bits of the u64 quotient.
as_u32(quotient) == SubSeq(quotient, 1, 2)

\* 2u128.pow(exp): 2^exp when it fits; for exp >= 128 the multiplication
\* overflows, which panics with overflow checks and wraps to 0 without.
pow2_u128(exp, checks) ==
    IF exp[2] # 0 \/ exp[1] >= 128
    THEN IF checks THEN [err |-> Some("Panic"), value |-> Zeros(U128Limbs)]
         ELSE [err |-> None, value |-> Zeros(U128Limbs)]
    ELSE [err |-> None,
          value |-> [i \in 1..U128Limbs |->
                        IF i = (exp[1] \div 16) + 1 THEN Pow2Int(exp[1] % 16) ELSE 0]]

\* base_reward / 2u128.pow((period / half_period) as u32), for half_period # 0;
\* a zero divisor panics in every build.
Reward(base_reward, period, half_period, checks) ==
    LET pow == pow2_u128(as_u32(DivLimbs(period, half_period)), checks)
    IN IF pow.err # None THEN pow
       ELSE IF pow.value = Zeros(U128Limbs)
            THEN [err |-> Some("Panic"), value |-> pow.value]
       ELSE [err |-> None, value |-> DivLimbs(base_reward, pow.value)]

\* output_at_amount - input_at_amount: with overflow checks the subtraction
\* panics when it goes below zero, without them it wraps modulo 2^128.
SubU128(output_at_amount, input_at_amount, checks) ==
    LET diff == SubLimbs(output_at_amount, input_at_amount, 0)
    IN IF diff.carry = 1 /\ checks
       THEN [err |-> Some("Panic"), value |-> output_at_amount]
       ELSE [err |-> None, value |-> diff.limbs]

\* What main() returns, with the checks it evaluated on the way.
Ret(res, trace) == [result |-> res, steps |-> trace]

\* The admin mode branch with the balance compared before the signature.
AdminPathAmountFirst(t, input_at_amount, output_at_amount, trace) ==
    IF AdminAmountMismatch(input_at_amount, output_at_amount)
    THEN Ret("ATAmountMismatch", trace \o <<"admin_amount">>)
    ELSE IF ~t.sig_ok
    THEN Ret("SignatureMismatch", trace \o <<"admin_amount", "verify_signature">>)
    ELSE Ret("Ok", trace \o <<"admin_amount", "verify_signature">>)

\* The admin mode branch of main().
AdminPath(t, input_at_amount, output_at_amount, trace) ==
    IF ~t.sig_ok
    THEN Ret("SignatureMismatch", trace \o <<"verify_signature">>)
    ELSE IF AdminAmountMismatch(input_at_amount, output_at_amount)
    THEN Ret("ATAmountMismatch", trace \o <<"verify_signature", "admin_amount">>)
    ELSE Ret("Ok", trace \o <<"verify_signature", "admin_amount">>)

\* The checkpoint mode branch of main().
CheckpointPath(t, input_checkpoint_data, output_checkpoint_data, input_at_amount, output_at_amount, checks, trace) ==
    IF t.witness[1].lock = None
    THEN Ret("WitnessLockError", trace \o <<"lock">>)
    ELSE IF FixedFieldsDiffer(input_checkpoint_data, output_checkpoint_data)
    THEN Ret("CheckpointDataMismatch", trace \o <<"lock", "fixed_fields">>)
    ELSE
    LET base_reward == bytes_to_u128(input_checkpoint_data.base_reward)
        period == bytes_to_u64(input_checkpoint_data.period)
        half_period == bytes_to_u64(input_checkpoint_data.half_period)
        sofar == trace \o <<"lock", "fixed_fields", "half_period">>
    IN  IF HalvingGuard(period, half_period)
        THEN Ret("CheckpointDataError", sofar)
        ELSE
        LET delta == SubU128(output_at_amount, input_at_amount, checks)
        IN  IF delta.err # None
            THEN Ret(delta.err[1], sofar \o <<"delta">>)
            ELSE
            LET reward == Reward(base_reward, period, half_period, checks)
            IN  IF reward.err # None
                THEN Ret(reward.err[1], sofar \o <<"delta", "reward">>)
                ELSE IF delta.value # reward.value
                THEN Ret("ATAmountMismatch", sofar \o <<"delta", "reward", "checkpoint_amount">>)
                ELSE Ret("Ok", sofar \o <<"delta", "reward", "checkpoint_amount">>)

\* pub fn main() -> Result<(), Error>, on transaction t with script args a,
\* built with or without overflow checks.
main(t, a, checks) ==
    LET input == get_info_by_type_hash(a.type_id_hash, t.inputs)
    IN  IF input.err # None THEN Ret(input.err[1], <<"get_info_input">>)
    ELSE
    LET output == get_info_by_type_hash(a.type_id_hash, t.outputs)
    IN  IF output.err # None
        THEN Ret(output.err[1], <<"get_info_input", "get_info_output">>)
    ELSE
    LET input_checkpoint_data == input.celldata[1]
        output_checkpoint_data == output.celldata[1]
        located == <<"get_info_input", "get_info_output", "capacity">>
    IN  IF CapacityDiffers(input.capacity, output.capacity)
        THEN Ret("CheckpointCapacityMismatch", located)
    ELSE IF ConfigDiffers(input_checkpoint_data, output_checkpoint_data)
        THEN Ret("CheckpointDataMismatch", located \o <<"config">>)
    ELSE IF t.witness = None
        THEN Ret("IndexOutOfBound", located \o <<"config", "load_witness_args">>)
    ELSE
    LET mode == IF t.witness[1].input_type = None THEN None
                ELSE is_admin_mode(t.witness[1].input_type)
        selected == located \o <<"config", "load_witness_args", "input_type">>
    IN  IF mode = None THEN Ret("BadWitnessInputType", selected)
    ELSE
    LET sudt_type_hash == input_checkpoint_data.sudt_type_hash
        input_at_amount == get_sudt_by_type_hash(sudt_type_hash, t.inputs, checks)
    IN  IF input_at_amount.err # None
        THEN Ret(input_at_amount.err[1], selected \o <<"get_sudt_input">>)
    ELSE
    LET output_at_amount == get_sudt_by_type_hash(
                                input_checkpoint_data.sudt_type_hash, t.outputs, checks)
        summed == selected \o <<"get_sudt_input", "get_sudt_output">>
    IN  IF output_at_amount.err # None
        THEN Ret(output_at_amount.err[1], summed)
    ELSE IF mode[1]
        THEN AdminPath(t, input_at_amount.value, output_at_amount.value,
                       summed \o <<"admin_mode">>)
        ELSE CheckpointPath(t, input_checkpoint_data, output_checkpoint_data,
                            input_at_amount.value, output_at_amount.value, checks,
                            summed \o <<"checkpoint_mode">>)

----------------------------------------------------------------------------
(* The ledger around the script: the records it may start from and the      *)
(* transactions submitted against the live record.                          *)

\* Longest chain of accepted transitions explored.
MaxChain == 2

\* 2^32 as a u64.
TwoPow32 == <<0, 0, 1, 0>>

\* (base_reward, period, half_period) of the records a chain may start from:
\* the reward of scenario C (a changed period makes it one halving), a zero
\* halving interval, a quotient of 128 and a quotient of 2^32.
Profiles ==
    { <<Small(100, U128Limbs), Small(0, U64Limbs), Small(1, U64Limbs)>>,
      <<Small(100, U128Limbs), Small(0, U64Limbs), Small(0, U64Limbs)>>,
      <<Small(100, U128Limbs), Small(128, U64Limbs), Small(1, U64Limbs)>>,
      <<Small(100, U128Limbs), TwoPow32, Small(1, U64Limbs)>> }

GenesisRecord(p) ==
    [axon_checkpoint_data(SudtTypeHash, StakeTypeHash, WithdrawalCodeHash)
        EXCEPT !.base_reward = to_le_bytes(p[1]),
               !.period = to_le_bytes(p[2]),
               !.half_period = to_le_bytes(p[3])]

\* tests::test_checkpoint_success: the record cell holds capacity 1000 and the
\* type script whose hash is the type_id_hash of the lock args.
RecordCell(capacity, data) == Cell(Some(TypeIdHash), capacity, data)

\* A different value of the same width: the lowest bit of the first byte flipped.
Flip(bytes) == [bytes EXCEPT ![1] = IF @ % 2 = 0 THEN @ + 1 ELSE @ - 1]

\* The record with the named fields changed.
Changed(data, fields) ==
    [f \in DOMAIN data |-> IF f \in fields THEN Flip(data[f]) ELSE data[f]]

\* How the produced record cell may differ from the consumed one.
RecordDeltas ==
    { [capacity |-> c, fields |-> {}] : c \in BOOLEAN }
    \cup { [capacity |-> TRUE, fields |-> {"version"}] }
    \cup { [capacity |-> FALSE, fields |-> {f}] : f \in ConfigFields }
    \cup { [capacity |-> FALSE, fields |-> fs] :
             fs \in { {"state"}, {"unlock_period"}, {"period", "era", "block_hash"},
                      MutableFields } }

\* The produced record cell carries the type script of the consumed one.
Produced(cell, delta) ==
    Cell(cell.type_hash, IF delta.capacity THEN cell.capacity - 1 ELSE cell.capacity,
         Changed(cell.data, delta.fields))

\* helper::sign_tx: the lock segment holds the 65-byte recoverable signature.
Signature == [i \in 1..65 |-> 0]

\* WitnessArgs of the first group input (None: the transaction has no such
\* witness) with the oracle's answer for the signature it carries.
Witnesses ==
    { [witness |-> None, sig_ok |-> FALSE] }
    \cup { [witness |-> Some([input_type |-> it, lock |-> None]), sig_ok |-> FALSE] :
             it \in { Some(<<0>>), Some(<<1>>) } }
    \cup { [witness |-> Some([input_type |-> it, lock |-> Some(Signature)]), sig_ok |-> FALSE] :
             it \in { None, Some(<<>>) } }
    \cup { [witness |-> Some([input_type |-> Some(<<0>>), lock |-> Some(Signature)]),
             sig_ok |-> ok] : ok \in BOOLEAN }
    \cup { [witness |-> Some([input_type |-> Some(<<0, 1>>), lock |-> Some(Signature)]),
             sig_ok |-> TRUE],
           [witness |-> Some([input_type |-> Some(<<1>>), lock |-> Some(Signature)]),
             sig_ok |-> FALSE] }

\* The witnesses tried where main() returns before it loads the witness (a
\* capacity or configuration difference): none, an Administrative one with a
\* rejected and with an accepted signature, a Periodic-Update one without lock.
FewWitnesses ==
    { w \in Witnesses :
        \/ w.witness = None
        \/ /\ w.witness # None
           /\ \/ w.witness[1] = [input_type |-> Some(<<0>>), lock |-> Some(Signature)]
              \/ w.witness[1] = [input_type |-> Some(<<1>>), lock |-> None] }

\* The witnesses of a transaction that is to pass the Mode Selector and the
\* authorization of its mode.
AuthorizedWitnesses ==
    { w \in Witnesses :
        /\ w.witness # None
        /\ w.witness[1].lock # None
        /\ \/ w.witness[1].input_type = Some(<<0>>) /\ w.sig_ok
           \/ w.witness[1].input_type = Some(<<1>>) }

\* A token cell holding the amount as 16 little-endian bytes.
TokenCell(amount) == Cell(Some(SudtTypeHash), 3000, Raw(to_le_bytes(amount)))

\* helper::axon_at_data: the amount followed by an 8-byte period.
TokenCellWithPeriod(amount) ==
    Cell(Some(SudtTypeHash), 3000,
         Raw(to_le_bytes(amount) \o to_le_bytes(Small(7, U64Limbs))))

\* A token cell whose data is shorter than 16 bytes.
ShortTokenCell == Cell(Some(SudtTypeHash), 3000, Raw(to_le_bytes(Small(2000, U64Limbs))))

\* A cell without a type script that holds an amount.
TypelessCell(amount) == Cell(None, 3000, Raw(to_le_bytes(amount)))

\* Cells that are neither the record nor the token: no type script, another type.
Bystanders ==
    << Cell(None, 500, Raw(<<>>)),
       Cell(Some(OtherTypeHash), 500, Raw(to_le_bytes(Small(9, U64Limbs)))) >>

Amount(v) == Small(v, U128Limbs)

\* The token cells of the two sides.
TokenSides ==
    { [inputs |-> <<TokenCell(Amount(2000)), TokenCell(Amount(3000))>> \o Bystanders,
       outputs |-> <<TokenCellWithPeriod(Amount(5000))>> \o Bystanders],
      [inputs |-> <<TokenCell(Amount(2000)), TokenCell(Amount(3000))>>,
       outputs |-> <<TokenCell(Amount(5001))>>],
      [inputs |-> <<TokenCell(Amount(2000)), TokenCell(Amount(3000))>>,
       outputs |-> <<TokenCell(Amount(4999))>>],
      [inputs |-> <<TokenCell(Amount(2000)), TokenCell(Amount(3000))>>,
       outputs |-> <<TokenCell(Amount(5100))>>],
      [inputs |-> <<TokenCell(Amount(2000)), TokenCell(Amount(3000))>>,
       outputs |-> <<TokenCell(Amount(5050))>>],
      [inputs |-> <<>>, outputs |-> <<>>],
      [inputs |-> <<TokenCell(MaxOf(U128Limbs))>>,
       outputs |-> <<TokenCell(Amount(99))>>],
      [inputs |-> <<TokenCell(Amount(5000))>>,
       outputs |-> <<TokenCell(MaxOf(U128Limbs)), TokenCell(Amount(5001))>>],
      [inputs |-> <<TokenCell(MaxOf(U128Limbs)), TokenCell(Amount(5000))>>,
       outputs |-> <<TokenCell(Amount(5001))>>],
      [inputs |-> <<TokenCell(Amount(2000)), ShortTokenCell>>,
       outputs |-> <<TokenCell(Amount(2000))>>],
      [inputs |-> <<TokenCell(Amount(5000)), TypelessCell(Amount(40))>>,
       outputs |-> <<TokenCell(Amount(5000)), TypelessCell(Amount(140))>>] }

\* The token cells tried where main() returns before it reads them (a
\* misplaced record, a capacity or configuration difference) or where the
\* amounts decide nothing new (a change of unlock_period alone): scenario A,
\* none, a short one.
FewTokenSides ==
    { ts \in TokenSides :
        \/ ts.inputs = <<>>
        \/ ts.outputs = <<TokenCell(Amount(2000))>>
        \/ Len(ts.outputs) = 3 }

TokenSidesFor(delta) ==
    IF \/ delta.capacity
       \/ delta.fields \cap ConfigFields # {}
       \/ delta.fields = {"unlock_period"}
    THEN FewTokenSides
    ELSE TokenSides

WitnessesFor(delta) ==
    IF delta.capacity \/ delta.fields \cap ConfigFields # {}
    THEN FewWitnesses
    ELSE Witnesses

\* tests::test_checkpoint_success builds the lock args from the admin identity
\* and the hash of the record's type script.
CheckpointLockArgs ==
    [admin_identity |-> [flag |-> 0, content |-> [i \in 1..20 |-> 0]],
     type_id_hash |-> TypeIdHash]

Transaction(inputs, outputs, w) ==
    [inputs |-> inputs, outputs |-> outputs, witness |-> w.witness, sig_ok |-> w.sig_ok]

\* The reward of scenario C.
ScenarioC == <<Small(100, U128Limbs), Small(0, U64Limbs), Small(1, U64Limbs)>>

\* The script args and the genesis record cell of a ledger: the record cell
\* typed by the type_id_hash of the args, for each profile; args whose
\* type_id_hash is 32 zero bytes with a record cell that has no type script;
\* a record whose sudt_type_hash is 32 zero bytes.
Ledgers ==
    { [args |-> CheckpointLockArgs, genesis |-> RecordCell(1000, GenesisRecord(p))] :
        p \in Profiles }
    \cup { [args |-> [CheckpointLockArgs EXCEPT !.type_id_hash = Hash32(0)],
            genesis |-> Cell(None, 1000, GenesisRecord(ScenarioC))],
          [args |-> CheckpointLockArgs,
           genesis |-> RecordCell(1000, [GenesisRecord(ScenarioC) EXCEPT
                                            !.sudt_type_hash = Hash32(0)])] }

Init ==
    /\ overflow_checks \in BOOLEAN
    /\ \E l \in Ledgers : args = l.args /\ genesis = l.genesis
    /\ live = genesis
    /\ height = 0
    /\ tx = Transaction(<<>>, <<>>, [witness |-> None, sig_ok |-> FALSE])
    /\ result = "None"
    /\ steps = <<>>

\* No transaction is being verified.
Idle == result = "None"

\* The first cell of a side that get_info_by_type_hash takes for the record
\* holds a record: CheckpointLockCellData is decoded from that cell only.
RecordDecodes(cells) ==
    \A i \in 1..Len(cells) :
        ( /\ unwrap_or_zero(cells[i].type_hash) = args.type_id_hash
          /\ \A j \in 1..(i - 1) : unwrap_or_zero(cells[j].type_hash) # args.type_id_hash )
        => cells[i].data.kind = "checkpoint"

\* main() runs on t.
Verify(t) ==
    LET ret == main(t, args, overflow_checks)
    IN  /\ RecordDecodes(t.inputs)
        /\ RecordDecodes(t.outputs)
        /\ tx' = t
        /\ result' = ret.result
        /\ steps' = ret.steps
        /\ UNCHANGED <<overflow_checks, args, genesis, live, height>>

\* A transaction that consumes the live record cell and produces one record cell.
SubmitTransition ==
    /\ Idle
    /\ height < MaxChain
    /\ \E delta \in RecordDeltas :
       \E w \in WitnessesFor(delta), tokens \in TokenSidesFor(delta) :
          LET produced == Produced(live, delta)
          IN Verify(Transaction(<<live>> \o tokens.inputs,
                                <<produced>> \o tokens.outputs, w))

\* n copies of a record cell around the other cells of a side: none, the cell
\* first, or the cell first and a second one last.
WithRecords(n, cell, others) ==
    IF n = 0 THEN others
    ELSE IF n = 1 THEN <<cell>> \o others
    ELSE <<cell>> \o others \o <<cell>>

\* A transaction that does not hold exactly one record cell on each side.
SubmitMisplaced ==
    /\ Idle
    /\ height < MaxChain
    /\ \E n_in \in 0..2, n_out \in 0..2, capacity \in BOOLEAN,
          w \in AuthorizedWitnesses, tokens \in FewTokenSides :
          /\ <<n_in, n_out>> # <<1, 1>>
          /\ LET produced == Produced(live, [capacity |-> capacity, fields |-> {}])
             IN Verify(Transaction(WithRecords(n_in, live, tokens.inputs),
                                   WithRecords(n_out, produced, tokens.outputs), w))

\* The record cells among the outputs of t.
OutputRecords(t) ==
    { i \in 1..Len(t.outputs) : unwrap_or_zero(t.outputs[i].type_hash) = args.type_id_hash }

\* The ledger settles the verified transaction: an accepted one replaces the
\* live record cell by the record cell it produced, a rejected one is dropped.
Settle ==
    /\ ~Idle
    /\ live' = IF result = "Ok" /\ OutputRecords(tx) # {}
               THEN tx.outputs[CHOOSE i \in OutputRecords(tx) : TRUE]
               ELSE live
    /\ height' = IF result = "Ok" THEN height + 1 ELSE height
    /\ tx' = Transaction(<<>>, <<>>, [witness |-> None, sig_ok |-> FALSE])
    /\ result' = "None"
    /\ steps' = <<>>
    /\ UNCHANGED <<overflow_checks, args, genesis>>

Next == SubmitTransition \/ SubmitMisplaced \/ Settle

Spec == Init /\ [][Next]_vars

----------------------------------------------------------------------------
(* What the properties speak of, read off the transaction itself.           *)

\* main() has run on tx.
Verified == result # "None"

\* The cell counts for the type identifier h: its type script has hash h, or
\* it has no type script and h is 32 zero bytes.
Matches(cell, h) ==
    IF cell.type_hash = None THEN h = Hash32(0) ELSE cell.type_hash = Some(h)

\* The cells of a side whose type identifier is h.
CellsOfType(cells, h) == { i \in 1..Len(cells) : Matches(cells[i], h) }

RecordCount(cells) == Cardinality(CellsOfType(cells, args.type_id_hash))

\* Exactly one record cell on each side.
OneRecordPerSide == RecordCount(tx.inputs) = 1 /\ RecordCount(tx.outputs) = 1

\* The consumed and the produced record cell, when OneRecordPerSide.
Consumed == tx.inputs[CHOOSE i \in CellsOfType(tx.inputs, args.type_id_hash) : TRUE]

ProducedCell == tx.outputs[CHOOSE i \in CellsOfType(tx.outputs, args.type_id_hash) : TRUE]

SameFields(a, b, fields) == \A f \in fields : a[f] = b[f]

\* The Invariant Checker has nothing to object to.
SameCapacityAndConfig ==
    /\ Consumed.capacity = ProducedCell.capacity
    /\ SameFields(Consumed.data, ProducedCell.data, ConfigFields)

\* The witness of the first group input is there and its input_type segment
\* holds at least one byte.
HasDiscriminant ==
    /\ tx.witness # None
    /\ tx.witness[1].input_type # None
    /\ tx.witness[1].input_type[1] # <<>>

FirstByte == tx.witness[1].input_type[1][1]

LockPresent == tx.witness[1].lock # None

\* The token type the consumed record configures.
TokenType == Consumed.data.sudt_type_hash

\* Every token cell of both sides holds at least 16 data bytes.
TokenCellsWellFormed ==
    /\ \A i \in CellsOfType(tx.inputs, TokenType) : Len(tx.inputs[i].data.bytes) >= 16
    /\ \A i \in CellsOfType(tx.outputs, TokenType) : Len(tx.outputs[i].data.bytes) >= 16

\* Numbers wide enough for the sum of the token cells of a side.
WideLimbs == U128Limbs + 1

RECURSIVE ExactSum(_, _, _)
\* The arithmetic sum of the amounts of cells i .. Len(cells) of type h.
ExactSum(cells, h, i) ==
    IF i > Len(cells) THEN Zeros(WideLimbs)
    ELSE LET rest == ExactSum(cells, h, i + 1)
         IN IF ~Matches(cells[i], h) THEN rest
            ELSE LET amount == Widen(from_le_bytes(SubSeq(cells[i].data.bytes, 1, 16)),
                                     WideLimbs)
                 IN IF rest = Zeros(WideLimbs) THEN amount
                    ELSE AddLimbs(amount, rest, 0).limbs

ConsumedTotal == ExactSum(tx.inputs, TokenType, 1)

ProducedTotal == ExactSum(tx.outputs, TokenType, 1)

\* A total fits 128 bits.
FitsU128(total) == total[WideLimbs] = 0

\* floor(base_reward / 2^floor(period / half_period)) of the consumed record,
\* for half_period # 0: zero once the quotient reaches 128.
HalvingReward ==
    LET base_reward == from_le_bytes(Consumed.data.base_reward)
        quotient == DivLimbs(from_le_bytes(Consumed.data.period),
                             from_le_bytes(Consumed.data.half_period))
    IN IF quotient[2] # 0 \/ quotient[3] # 0 \/ quotient[4] # 0 \/ quotient[1] >= 128
       THEN Zeros(U128Limbs)
       ELSE DivLimbs(base_reward,
                     [i \in 1..U128Limbs |->
                        IF i = (quotient[1] \div 16) + 1 THEN Pow2Int(quotient[1] % 16) ELSE 0])

\* The Record Locator and the Invariant Checker pass and the discriminant
\* selects a mode.
PassesModeSelector ==
    /\ Verified
    /\ OneRecordPerSide
    /\ SameCapacityAndConfig
    /\ HasDiscriminant

----------------------------------------------------------------------------
(* C1. Cardinality: when a side holds no cell, or two or more cells, whose  *)
(* type identifier is the type_id_hash of the script args, main rejects     *)
(* with CheckpointCellError; main gets past get_info_by_type_hash (it       *)
(* evaluates a check after the two scans) only when each side holds         *)
(* exactly one such cell.                                                   *)
C1_Cardinality ==
    Verified =>
        /\ ~OneRecordPerSide => result = "CheckpointCellError"
        /\ Len(steps) > 2 => OneRecordPerSide
        /\ result = "CheckpointCellError" => ~OneRecordPerSide

\* One record cell consumed, two produced: rejected by the scan of the outputs.
C1_Witness ==
    /\ RecordCount(tx.inputs) = 1
    /\ RecordCount(tx.outputs) = 2
    /\ result = "CheckpointCellError"
    /\ steps = <<"get_info_input", "get_info_output">>

(* C2. Invariant preservation: an accepted transaction (either mode) has     *)
(* one record cell per side with the same capacity and the same eight       *)
(* configuration fields; hence along every chain of accepted transitions    *)
(* the live record keeps the capacity and the configuration of the genesis  *)
(* record.                                                                  *)
C2_InvariantPreservation ==
    /\ result = "Ok" => OneRecordPerSide /\ SameCapacityAndConfig
    /\ live.capacity = genesis.capacity
    /\ SameFields(live.data, genesis.data, ConfigFields)

\* A second accepted transition, on a record the first one changed.
C2_Witness ==
    /\ result = "Ok"
    /\ height = 1
    /\ live.data.state # genesis.data.state
    /\ Consumed = live
    /\ ProducedCell.data.period # live.data.period

(* C3. Non-mint in Administrative mode: a transaction accepted with          *)
(* discriminant first byte 0 has a produced token total not above the       *)
(* consumed total; with the earlier checks passing and a valid signature,   *)
(* a produced total that is equal or smaller is accepted and a larger one   *)
(* is rejected with ATAmountMismatch.                                       *)
C3_NonMint ==
    (PassesModeSelector /\ FirstByte = 0 /\ TokenCellsWellFormed) =>
        /\ result = "Ok" => ~LessLimbs(ConsumedTotal, ProducedTotal)
        /\ tx.sig_ok =>
              IF LessLimbs(ConsumedTotal, ProducedTotal)
              THEN result = "ATAmountMismatch"
              ELSE result = "Ok"

\* The transaction gets to the balance check of the Periodic-Update path.
ReachesPeriodicBalanceCheck ==
    /\ PassesModeSelector
    /\ FirstByte # 0
    /\ LockPresent
    /\ SameFields(Consumed.data, ProducedCell.data, {"state", "unlock_period"})
    /\ from_le_bytes(Consumed.data.half_period) # Zeros(U64Limbs)
    /\ TokenCellsWellFormed

\* The produced total is the consumed total plus the halving reward.
ExactRewardPaid ==
    ProducedTotal = AddLimbs(ConsumedTotal, Widen(HalvingReward, WideLimbs), 0).limbs

(* C4. Exact reward in Periodic-Update mode: a transaction that reaches the  *)
(* Periodic-Update balance check is accepted if and only if produced total  *)
(* minus consumed total equals base_reward / 2^(period / half_period) of    *)
(* the consumed record; every other delta, a negative one included, is      *)
(* rejected with ATAmountMismatch.                                          *)
C4_ExactReward ==
    ReachesPeriodicBalanceCheck =>
        IF ExactRewardPaid THEN result = "Ok" ELSE result = "ATAmountMismatch"

\* Both runs of the Balance Aggregator return a sum: the token cells are well
\* formed and, in a build that checks overflow, no total exceeds 128 bits.
AggregationReturns ==
    /\ TokenCellsWellFormed
    /\ overflow_checks => FitsU128(ConsumedTotal) /\ FitsU128(ProducedTotal)

Range(seq) == { seq[i] : i \in 1..Len(seq) }

\* The Administrative branch ran: its first check is the signature check.
RanAdministrative == "verify_signature" \in Range(steps)

\* The Periodic-Update branch ran: its first check is the lock segment.
RanPeriodicUpdate ==
    Range(steps) \cap {"lock", "fixed_fields", "half_period", "delta", "reward",
                       "checkpoint_amount"} # {}

ZeroHalfPeriod == from_le_bytes(Consumed.data.half_period) = Zeros(U64Limbs)

(* C5 as stated. Zero-halving guard: every transaction whose consumed record *)
(* has half_period = 0 is rejected with CheckpointDataError, whatever the   *)
(* mode discriminant, the other fields, the balances and the authorization. *)
(* Stated here for the transactions that pass every check up to and         *)
(* including the authorization of their mode, so that the mode alone        *)
(* decides.                                                                 *)
C5_AlwaysRejected ==
    ( /\ PassesModeSelector
      /\ AggregationReturns
      /\ FirstByte = 0 => tx.sig_ok
      /\ FirstByte # 0 =>
            /\ LockPresent
            /\ SameFields(Consumed.data, ProducedCell.data, {"state", "unlock_period"})
      /\ ZeroHalfPeriod ) => result = "CheckpointDataError"

(* C5 as amended. A transaction that reaches the halving-interval check of   *)
(* the Periodic-Update path (one record cell per side, equal capacity and   *)
(* configuration, first discriminant byte non-zero, both token totals       *)
(* returned, lock segment present, state and unlock_period unchanged) and   *)
(* whose consumed record has half_period = 0 is rejected with               *)
(* CheckpointDataError whatever the balances are; and CheckpointDataError   *)
(* is returned for no other transaction.                                    *)
C5_ZeroHalvingGuard ==
    /\ ( /\ PassesModeSelector
         /\ FirstByte # 0
         /\ AggregationReturns
         /\ LockPresent
         /\ SameFields(Consumed.data, ProducedCell.data, {"state", "unlock_period"})
         /\ ZeroHalfPeriod ) => result = "CheckpointDataError"
    /\ result = "CheckpointDataError" =>
         PassesModeSelector /\ FirstByte # 0 /\ ZeroHalfPeriod

\* Rejected by the guard although the reward of a non-zero interval was paid.
C5_Witness ==
    /\ result = "CheckpointDataError"
    /\ ProducedTotal = AddLimbs(ConsumedTotal, Small(100, WideLimbs), 0).limbs

(* C6 as stated. Mode selection: of the transactions that pass the Record    *)
(* Locator and the Invariant Checker and carry the witness, one without     *)
(* input_type bytes is rejected with BadWitnessInputType, and on every      *)
(* other exactly one branch runs: the Administrative one (and no            *)
(* Periodic-Update check) when the first byte is 0, the Periodic-Update one *)
(* (and no signature check) otherwise.                                      *)
C6_ExactlyOneBranch ==
    (Verified /\ OneRecordPerSide /\ SameCapacityAndConfig /\ tx.witness # None) =>
        IF ~HasDiscriminant THEN result = "BadWitnessInputType"
        ELSE IF FirstByte = 0 THEN RanAdministrative /\ ~RanPeriodicUpdate
        ELSE RanPeriodicUpdate /\ ~RanAdministrative

(* C6 as amended. Same, except that the selected branch runs exactly when    *)
(* both runs of the Balance Aggregator return a sum, since main aggregates  *)
(* the balances between the mode selection and the branch; the other        *)
(* branch never runs, and BadWitnessInputType is returned only for a        *)
(* missing or empty input_type.                                             *)
C6_ModeSelection ==
    /\ (Verified /\ OneRecordPerSide /\ SameCapacityAndConfig /\ tx.witness # None) =>
          IF ~HasDiscriminant THEN result = "BadWitnessInputType"
          ELSE IF FirstByte = 0
               THEN ~RanPeriodicUpdate /\ (RanAdministrative <=> AggregationReturns)
               ELSE ~RanAdministrative /\ (RanPeriodicUpdate <=> AggregationReturns)
    /\ result = "BadWitnessInputType" => tx.witness # None /\ ~HasDiscriminant

\* First byte 0 followed by a non-zero byte: the Administrative branch ran.
C6_Witness ==
    /\ HasDiscriminant
    /\ tx.witness[1].input_type[1] = <<0, 1>>
    /\ RanAdministrative
    /\ ~RanPeriodicUpdate

(* C7. Administrative acceptance: one record cell per side, equal capacity   *)
(* and configuration, first discriminant byte 0, well-formed token cells,   *)
(* an accepted signature and a consumed token total not below the produced  *)
(* one are accepted, whatever the mutable fields of the two records are.    *)
C7_AdminAcceptance ==
    ( /\ PassesModeSelector
      /\ FirstByte = 0
      /\ TokenCellsWellFormed
      /\ tx.sig_ok
      /\ ~LessLimbs(ConsumedTotal, ProducedTotal) ) => result = "Ok"

(* C8. Periodic-Update fixed fields: a transaction accepted through the      *)
(* Periodic-Update branch has equal state and equal unlock_period in the    *)
(* two records; one that passes the earlier checks and has the lock segment *)
(* but differs in state or in unlock_period is rejected with                *)
(* CheckpointDataMismatch.                                                  *)
C8_FixedFields ==
    /\ (result = "Ok" /\ HasDiscriminant /\ FirstByte # 0) =>
          /\ OneRecordPerSide
          /\ SameFields(Consumed.data, ProducedCell.data, {"state", "unlock_period"})
    /\ ( /\ PassesModeSelector
         /\ FirstByte # 0
         /\ AggregationReturns
         /\ LockPresent
         /\ ~SameFields(Consumed.data, ProducedCell.data, {"state", "unlock_period"}) )
       => result = "CheckpointDataMismatch"

\* Only unlock_period differs, and the Periodic-Update branch rejects it.
C8_Witness ==
    /\ result = "CheckpointDataMismatch"
    /\ RanPeriodicUpdate
    /\ SameCapacityAndConfig
    /\ Consumed.data.state = ProducedCell.data.state
    /\ Consumed.data.unlock_period # ProducedCell.data.unlock_period

(* C9. Periodic-Update acceptance: a transaction that reaches the balance    *)
(* check with half_period >= 1, well-formed token cells and a produced      *)
(* total equal to the consumed total plus base_reward / 2^(period /         *)
(* half_period) is accepted; with base_reward 100, period 0, half_period 1  *)
(* a delta of 100 is accepted and a delta of 50 is rejected with            *)
(* ATAmountMismatch.                                                        *)
C9_PeriodicAcceptance ==
    ReachesPeriodicBalanceCheck =>
        /\ ExactRewardPaid => result = "Ok"
        /\ ( /\ from_le_bytes(Consumed.data.base_reward) = Small(100, U128Limbs)
             /\ from_le_bytes(Consumed.data.period) = Zeros(U64Limbs)
             /\ from_le_bytes(Consumed.data.half_period) = Small(1, U64Limbs)
             /\ ProducedTotal = AddLimbs(ConsumedTotal, Small(50, WideLimbs), 0).limbs )
           => result = "ATAmountMismatch"

(* C10 as stated. In an accepted transition the immutable fields are         *)
(* unaltered and a mutable field (state, period, era, unlock_period,        *)
(* block_hash) differs only if the transition went through the              *)
(* Periodic-Update path: an accepted Administrative transition changes none.*)
C10_MutableOnlyPeriodic ==
    result = "Ok" =>
        /\ OneRecordPerSide
        /\ SameFields(Consumed.data, ProducedCell.data, ConfigFields)
        /\ ~SameFields(Consumed.data, ProducedCell.data, MutableFields) =>
              RanPeriodicUpdate /\ ~RanAdministrative

(* C10 as amended. In an accepted transition the immutable fields are        *)
(* unaltered; state and unlock_period differ only if the transition went    *)
(* through the Administrative path (first discriminant byte 0), which       *)
(* leaves every mutable field free; period, era and block_hash may differ   *)
(* on either path.                                                          *)
C10_RecordDataInvariant ==
    result = "Ok" =>
        /\ OneRecordPerSide
        /\ SameFields(Consumed.data, ProducedCell.data, ConfigFields)
        /\ ~SameFields(Consumed.data, ProducedCell.data, {"state", "unlock_period"}) =>
              RanAdministrative /\ ~RanPeriodicUpdate /\ FirstByte = 0

\* An accepted Administrative transition that changes all five mutable fields.
C10_Witness ==
    /\ result = "Ok"
    /\ RanAdministrative
    /\ \A f \in MutableFields : Consumed.data[f] # ProducedCell.data[f]

\* The checks of main() in the order of the source, up to the end of each branch.
CommonOrder ==
    <<"get_info_input", "get_info_output", "capacity", "config", "load_witness_args",
      "input_type", "get_sudt_input", "get_sudt_output">>

AdministrativeOrder == CommonOrder \o <<"admin_mode", "verify_signature", "admin_amount">>

PeriodicUpdateOrder ==
    CommonOrder \o <<"checkpoint_mode", "lock", "fixed_fields", "half_period", "delta",
                     "reward", "checkpoint_amount">>

IsPrefix(s, t) == Len(s) <= Len(t) /\ SubSeq(t, 1, Len(s)) = s

\* The error code a check fails with (none for a step that only computes).
ErrorCodeOf(step) ==
    CASE step \in {"get_info_input", "get_info_output"} -> {"CheckpointCellError"}
      [] step = "capacity" -> {"CheckpointCapacityMismatch"}
      [] step \in {"config", "fixed_fields"} -> {"CheckpointDataMismatch"}
      [] step = "load_witness_args" -> {"IndexOutOfBound"}
      [] step = "input_type" -> {"BadWitnessInputType"}
      [] step \in {"get_sudt_input", "get_sudt_output"} -> {"BadSudtDataFormat"}
      [] step = "verify_signature" -> {"SignatureMismatch"}
      [] step \in {"admin_amount", "checkpoint_amount"} -> {"ATAmountMismatch"}
      [] step = "lock" -> {"WitnessLockError"}
      [] step = "half_period" -> {"CheckpointDataError"}
      [] OTHER -> {}

\* The checks evaluated form an initial part of one path, each evaluated once.
OnOnePath == IsPrefix(steps, AdministrativeOrder) \/ IsPrefix(steps, PeriodicUpdateOrder)

\* main() went through a whole path.
PathCompleted == steps \in {AdministrativeOrder, PeriodicUpdateOrder}

(* C11. Single terminal outcome: every run of main ends with exactly one     *)
(* result, accept or the error code of the first failing check; the checks  *)
(* evaluated are an initial part of one path in source order, each scan and *)
(* check evaluated once and none after the failed one; accept is returned   *)
(* exactly at the end of a path.                                            *)
C11_SingleTerminalOutcome ==
    Verified =>
        /\ steps # <<>>
        /\ OnOnePath
        /\ IF PathCompleted
           THEN result \in {"Ok"} \cup ErrorCodeOf(steps[Len(steps)])
           ELSE result \in ErrorCodeOf(steps[Len(steps)])

(* C12. The Invariant Checker runs before mode selection and unconditionally: *)
(* with one record cell per side, a capacity difference is rejected with    *)
(* CheckpointCapacityMismatch (also when a configuration field differs too) *)
(* and, with equal capacity, a configuration difference is rejected with    *)
(* CheckpointDataMismatch, whatever the witness and the token cells are;    *)
(* in both cases the witness is never loaded; and                           *)
(* CheckpointCapacityMismatch is returned for no other transaction.         *)
C12_InvariantCheckerFirst ==
    /\ (Verified /\ OneRecordPerSide) =>
          IF Consumed.capacity # ProducedCell.capacity
          THEN /\ result = "CheckpointCapacityMismatch"
               /\ "load_witness_args" \notin Range(steps)
          ELSE /\ result # "CheckpointCapacityMismatch"
               /\ ~SameFields(Consumed.data, ProducedCell.data, ConfigFields) =>
                     /\ result = "CheckpointDataMismatch"
                     /\ "load_witness_args" \notin Range(steps)
    /\ result = "CheckpointCapacityMismatch" => OneRecordPerSide

\* Capacity 1000 against 999 and a changed version, in a Periodic-Update
\* transaction without lock segment and with a short token cell.
C12_Witness ==
    /\ result = "CheckpointCapacityMismatch"
    /\ Consumed.capacity = 1000
    /\ ProducedCell.capacity = 999
    /\ Consumed.data.version # ProducedCell.data.version
    /\ HasDiscriminant
    /\ FirstByte # 0
    /\ ~LockPresent
    /\ ~TokenCellsWellFormed

\* The authorization check of the selected mode fails: the oracle rejects the
\* signature of an Administrative transaction, or a Periodic-Update
\* transaction carries no lock segment.
AuthorizationFails ==
    IF FirstByte = 0 THEN ~tx.sig_ok ELSE ~LockPresent

AuthorizationError ==
    IF FirstByte = 0 THEN "SignatureMismatch" ELSE "WitnessLockError"

(* C13 as stated. The authorization check of a mode comes before the token   *)
(* balances are aggregated: a transaction that passes the Record Locator,   *)
(* the Invariant Checker and the Mode Selector and whose authorization      *)
(* fails is rejected with SignatureMismatch (Administrative) or             *)
(* WitnessLockError (Periodic-Update), whatever the token cells hold.       *)
(* Stated here for the build that does not check arithmetic overflow, where *)
(* only the content of the token cells can come in between.                 *)
C13_AuthorizationBeforeBalances ==
    (PassesModeSelector /\ AuthorizationFails /\ ~overflow_checks) =>
        result = AuthorizationError

(* C13 as amended. The authorization check is the first check of its branch, *)
(* but main aggregates both token balances before it enters the branch: a   *)
(* transaction that passes the Record Locator, the Invariant Checker and    *)
(* the Mode Selector and whose authorization fails is rejected with         *)
(* SignatureMismatch or WitnessLockError, whatever the amounts are, exactly *)
(* when both runs of the Balance Aggregator return a sum; otherwise neither *)
(* branch runs and the result is that of the aggregation:                   *)
(* BadSudtDataFormat for a token cell shorter than 16 bytes, an abort where *)
(* a total overflows in a build that checks overflow.                       *)
C13_AuthorizationAfterAggregation ==
    (PassesModeSelector /\ AuthorizationFails) =>
        IF AggregationReturns
        THEN result = AuthorizationError
        ELSE /\ ~RanAdministrative
             /\ ~RanPeriodicUpdate
             /\ IF TokenCellsWellFormed THEN result = "Panic"
                ELSE IF overflow_checks THEN result \in {"BadSudtDataFormat", "Panic"}
                ELSE result = "BadSudtDataFormat"

\* A rejected signature on a transaction that also mints: the signature check
\* answers first.
C13_Witness ==
    /\ PassesModeSelector
    /\ FirstByte = 0
    /\ ~tx.sig_ok
    /\ TokenCellsWellFormed
    /\ FitsU128(ConsumedTotal)
    /\ FitsU128(ProducedTotal)
    /\ LessLimbs(ConsumedTotal, ProducedTotal)
    /\ result = "SignatureMismatch"

\* Token type identifiers the Balance Aggregator is asked about, next to the
\* one the ledger's record configures.
AggregatorTargets == {SudtTypeHash, OtherTypeHash, StakeTypeHash}

\* Some cell of type h on the side holds fewer than 16 data bytes.
HasShortCell(cells, h) ==
    \E i \in CellsOfType(cells, h) : Len(cells[i].data.bytes) < 16

\* What the Balance Aggregator is to return for a side and a target: the
\* arithmetic sum of the matching amounts, or BadSudtDataFormat.
AggregatorMeets(cells, h) ==
    LET returned == get_sudt_by_type_hash(h, cells, overflow_checks)
    IN IF HasShortCell(cells, h)
       THEN returned.err = Some("BadSudtDataFormat")
       ELSE /\ returned.err = None
            /\ Widen(returned.value, WideLimbs) = ExactSum(cells, h, 1)

(* C14. Balance Aggregator result: for each side of the transaction and     *)
(* each target type identifier, get_sudt_by_type_hash returns the           *)
(* arithmetic sum of the first 16 data bytes (little-endian) of the cells   *)
(* of that type, 0 when there is none, and BadSudtDataFormat when one of    *)
(* them holds fewer than 16 bytes; other cells change nothing; the value    *)
(* returned is the true sum also when that sum is 2^128 or more.            *)
C14_AggregatorResult ==
    Verified =>
        \A h \in AggregatorTargets \cup {live.data.sudt_type_hash} :
            AggregatorMeets(tx.inputs, h) /\ AggregatorMeets(tx.outputs, h)

\* The reward main() computes from the consumed record.
ComputedReward ==
    Reward(bytes_to_u128(Consumed.data.base_reward), bytes_to_u64(Consumed.data.period),
           bytes_to_u64(Consumed.data.half_period), overflow_checks)

(* C15. Halving reward value: in every run that gets to the reward (the      *)
(* consumed record has half_period >= 1) the reward the Periodic-Update     *)
(* path compares the balance delta against                                  *)
(* is floor(base_reward / 2^floor(period / half_period)), for every         *)
(* quotient, those of 128 or more and of 2^32 or more included (the reward  *)
(* is then 0), and the computation yields a value, it never aborts.         *)
C15_HalvingRewardValue ==
    "reward" \in Range(steps) =>
        /\ ComputedReward.err = None
        /\ ComputedReward.value = HalvingReward
        /\ result # "Panic"

\* The cells of a side that have a type script.
RECURSIVE WithoutTypeless(_)
WithoutTypeless(cells) ==
    IF cells = <<>> THEN <<>>
    ELSE IF Head(cells).type_hash = None THEN WithoutTypeless(Tail(cells))
    ELSE <<Head(cells)>> \o WithoutTypeless(Tail(cells))

\* The side with every cell that has no type script given the type identifier
\* of 32 zero bytes.
TypelessAsZero(cells) ==
    [i \in 1..Len(cells) |->
        IF cells[i].type_hash = None
        THEN [cells[i] EXCEPT !.type_hash = Some(Hash32(0))]
        ELSE cells[i]]

\* How a side reads for the target h: for the all-zero target a cell without
\* type script is a cell of type zero, for every other target it is not there.
ReadFor(cells, h) ==
    IF h = Hash32(0) THEN TypelessAsZero(cells) ELSE WithoutTypeless(cells)

\* The token type identifiers asked about: the one the ledger's record
\* configures and one that is not configured.
SudtTargets == {live.data.sudt_type_hash, OtherTypeHash}

(* C16. Cells without a type identifier: both scans treat a cell that has no *)
(* type script as a cell whose type identifier is 32 zero bytes: for the    *)
(* all-zero target the Record Locator and the Balance Aggregator return     *)
(* what they return when these cells carry the zero identifier, and for     *)
(* every other target what they return without these cells, so that such a  *)
(* cell adds to the cardinality count and to the sum only for the all-zero  *)
(* target. (A side without such a cell reads the same either way.)          *)
C16_TypelessCells ==
    Verified =>
        \A side \in {tx.inputs, tx.outputs} :
          (\E i \in 1..Len(side) : side[i].type_hash = None) =>
            /\ get_info_by_type_hash(args.type_id_hash, side)
                  = get_info_by_type_hash(args.type_id_hash,
                                          ReadFor(side, args.type_id_hash))
            /\ \A h \in SudtTargets :
                  get_sudt_by_type_hash(h, side, overflow_checks)
                     = get_sudt_by_type_hash(h, ReadFor(side, h), overflow_checks)

\* The record configures the all-zero token type and the reward is paid into
\* a cell without type script: the Periodic-Update path accepts.
C16_Witness ==
    /\ result = "Ok"
    /\ RanPeriodicUpdate
    /\ TokenType = Hash32(0)
    /\ \E i \in 1..Len(tx.outputs) :
          /\ tx.outputs[i].type_hash = None
          /\ tx.outputs[i].data.bytes = to_le_bytes(Amount(140))

\* The fields the Periodic-Update path is to advance one day.
ProgressFields == {"period", "era", "block_hash"}

\* tx with the named fields of the produced record given other values.
WithProduced(fields) ==
    [tx EXCEPT !.outputs =
        [i \in 1..Len(tx.outputs) |->
            IF i \in CellsOfType(tx.outputs, args.type_id_hash)
            THEN [tx.outputs[i] EXCEPT !.data = Changed(@, fields)]
            ELSE tx.outputs[i]]]

\* Produced total minus consumed total, modulo 2^128.
BalanceDelta == SubSeq(SubLimbs(ProducedTotal, ConsumedTotal, 0).limbs, 1, U128Limbs)

====
